---------------------------- MODULE Spec2Model ----------------------------
(***************************************************************************)
(* A model of the electricity tamper monitor: the rule chain and rolling   *)
(* histories of TamperDetector (src/tamper_detector.py), the synthetic     *)
(* generator and its streaming server (src/simulator.py), the serial       *)
(* reader (src/serial_reader.py),                                          *)
(* the monitoring controls of TamperUI (src/ui.py) and the CSV log of      *)
(* DataLogger (src/logger.py).                                             *)
(*                                                                         *)
(* Units.  Voltage (V), current (A) and magnetic field (G) are integers in *)
(* hundredths, the resolution the generator rounds to; power (W) is an     *)
(* integer in thousandths, the resolution the reader rounds to; the raw    *)
(* random draws of the generator are in thousandths, before rounding.      *)
(* Every threshold of the rule chain is a multiple of 0.01, so an ordering *)
(* test between a reading and a threshold is exact in these units.  The    *)
(* trend test of rule 7 is evaluated in exact rational arithmetic, cross-  *)
(* multiplied into integers.                                               *)
(***************************************************************************)
EXTENDS Integers, Sequences, FiniteSets, TLC

VARIABLES
    voltage_history,            \* TamperDetector.voltage_history
    current_history,            \* TamperDetector.current_history
    power_history,              \* TamperDetector.power_history
    magnetic_tamper_threshold,  \* TamperDetector.magnetic_tamper_threshold
    config,                     \* the other threshold attributes of the TamperDetector object
    event,                      \* what the last detect_tamper call returned
    trend,                      \* locals of rule 7 in the last call
    arrived,                    \* history variable: every reading classified so far
    phase,                      \* position of the input stream of the detector specs
    constructed,                \* TamperUI.__init__ has run
    port,                       \* SerialReader.port
    mock_mode,                  \* SerialReader.mock_mode
    ser,                        \* SerialReader.ser: None or a transport object
    link,                       \* the device behind the transport: "ok" or "lost"
    rx,                         \* the transport's input buffer
    call,                       \* history variable: the call the last step made, if any
    ret,                        \* what that call returned
    returned,                   \* history variable: the readings read_sensor_data returned, in order
    logged,                     \* the rows DataLogger.log has written to the CSV file
    running,                    \* TamperUI.running
    thread,                     \* each monitor_loop thread's position
    pending,                    \* update_readings calls queued by root.after(0, ...)
    ui,                         \* "up" while mainloop runs, "closed" after run() returns
    voltage_data,               \* TamperUI.voltage_data, the graph array of the voltage
    stats_updates,              \* history variable: the update_statistics calls made so far
    server                      \* simulator.run_server: its position, queue and connection

detector_vars == <<voltage_history, current_history, power_history,
                   magnetic_tamper_threshold, config, event, trend, arrived>>
reader_vars == <<port, mock_mode, ser, link, rx>>
call_vars == <<call, ret>>
log_vars == <<returned, logged>>
ui_vars == <<constructed, running, thread, pending, ui>>
graph_vars == <<voltage_data, stats_updates>>
sim_vars == <<server>>
system_vars == <<reader_vars, call_vars, log_vars, ui_vars, graph_vars, sim_vars>>
vars == <<detector_vars, phase, system_vars>>

-----------------------------------------------------------------------------
(* Bounds of the model *)

\* Readings of the warm-up stream of SpecDetect.
MaxWarm == 7
\* Readings of a stream of SpecWindow, and the changes of value within it.
MaxStream == 52
MaxSwitch == 1
\* Monitor threads ever started in a run of Spec, records the transport
\* buffers at once, and readings in flight or classified (buffered records,
\* queued update_readings calls and classified readings together).
MaxThreads == 2
MaxBuf == 1
MaxInputs == 1
\* The same count of readings in a run of SpecMonitor.
MaxQueue == 2
\* Thresholds reassigned and readings classified in a run of SpecConfig.
MaxOverride == 1
MaxProbe == 1
\* Readings of a run of SpecGraph, enough to fill the graph arrays.
MaxGraph == 202
\* Clients of a run of SpecServer, and the records counted on one connection.
MaxClients == 2
MaxSent == 2

-----------------------------------------------------------------------------
(* Arithmetic helpers *)

Min(a, b) == IF a < b THEN a ELSE b
Abs(x) == IF x < 0 THEN 0 - x ELSE x

RECURSIVE SumSeq(_)
SumSeq(s) == IF s = <<>> THEN 0 ELSE Head(s) + SumSeq(Tail(s))

\* s[-k:]
LastN(s, k) == IF Len(s) <= k THEN s ELSE SubSeq(s, Len(s) - k + 1, Len(s))

\* round(n / d) for d > 0, ties to the even neighbour as Python's round().
RoundHalfEven(n, d) ==
    LET q == n \div d
        r == n % d
    IN  IF 2 * r < d THEN q
        ELSE IF 2 * r > d THEN q + 1
        ELSE IF q % 2 = 0 THEN q ELSE q + 1

\* round(x, 2) of a value given in thousandths; the result is in hundredths.
Round2(x) == RoundHalfEven(x, 10)

\* round(voltage * current, 3) of two values in hundredths; thousandths.
PowerOf(voltage, current) == RoundHalfEven(voltage * current, 10)

-----------------------------------------------------------------------------
(* TamperDetector *)

voltage_normal_min == 470
voltage_normal_max == 520
voltage_tamper_threshold == 270
current_min == 5
overload_threshold == 200
reverse_threshold == -10
bypass_voltage_floor == 450
magnetic_tamper_default == 6000
HISTORY_LIMIT == 50
TREND_MIN_SAMPLES == 5
TREND_WINDOW == 10

NoTrend == [evaluated |-> FALSE, total |-> 0, count |-> 0]

\* avg_power = sum(power_history[-10:]) / min(len(power_history), 10), kept
\* as the pair (total, count).
AvgPower(hist) ==
    [evaluated |-> TRUE,
     total |-> SumSeq(LastN(hist, TREND_WINDOW)),
     count |-> Min(Len(hist), TREND_WINDOW)]

\* avg_power > 0.1 and abs(power - avg_power) > avg_power * 0.5
\*                 and power < avg_power * 0.3, with avg = total / count.
PowerDrop(avg, power) ==
    /\ avg.total * 10 > avg.count * 1000
    /\ 2 * Abs(power * avg.count - avg.total) > avg.total
    /\ 10 * power * avg.count < 3 * avg.total

Result(type, sev, tr) == [event_type |-> type, severity |-> sev, trend |-> tr]

\* The if/elif chain of rules 4 and 5 in the opposite order.
RuleChain_VoltageBeforeOverload(hist, threshold, voltage, current, magnetic_field, power) ==
    IF magnetic_field > threshold
      THEN Result("Magnetic Tamper", "critical", NoTrend)
    ELSE IF current < reverse_threshold
      THEN Result("Reverse Flow", "warning", NoTrend)
    ELSE IF voltage >= bypass_voltage_floor /\ current < current_min
      THEN Result("Bypass Detected", "critical", NoTrend)
    ELSE IF voltage < voltage_tamper_threshold
      THEN Result("Voltage Tamper", "critical", NoTrend)
    ELSE IF current > overload_threshold
      THEN Result("Overload Detected", "warning", NoTrend)
    ELSE IF voltage < voltage_normal_min \/ voltage > voltage_normal_max
      THEN Result("Voltage Anomaly", "warning", NoTrend)
    ELSE IF Len(hist) > TREND_MIN_SAMPLES
      THEN LET avg == AvgPower(hist)
           IN  IF PowerDrop(avg, power)
                 THEN Result("Power Mismatch", "warning", avg)
                 ELSE Result("Normal", "info", avg)
    ELSE Result("Normal", "info", NoTrend)

\* The if/elif chain with rule 2 tested before rule 1.
RuleChain_ReverseBeforeMagnetic(hist, threshold, voltage, current, magnetic_field, power) ==
    IF current < reverse_threshold
      THEN Result("Reverse Flow", "warning", NoTrend)
    ELSE IF magnetic_field > threshold
      THEN Result("Magnetic Tamper", "critical", NoTrend)
    ELSE IF voltage >= bypass_voltage_floor /\ current < current_min
      THEN Result("Bypass Detected", "critical", NoTrend)
    ELSE IF current > overload_threshold
      THEN Result("Overload Detected", "warning", NoTrend)
    ELSE IF voltage < voltage_tamper_threshold
      THEN Result("Voltage Tamper", "critical", NoTrend)
    ELSE IF voltage < voltage_normal_min \/ voltage > voltage_normal_max
      THEN Result("Voltage Anomaly", "warning", NoTrend)
    ELSE IF Len(hist) > TREND_MIN_SAMPLES
      THEN LET avg == AvgPower(hist)
           IN  IF PowerDrop(avg, power)
                 THEN Result("Power Mismatch", "warning", avg)
                 ELSE Result("Normal", "info", avg)
    ELSE Result("Normal", "info", NoTrend)

\* The if/elif chain with rule 6 tested before rule 4.
RuleChain_AnomalyBeforeOverload(hist, threshold, voltage, current, magnetic_field, power) ==
    IF magnetic_field > threshold
      THEN Result("Magnetic Tamper", "critical", NoTrend)
    ELSE IF current < reverse_threshold
      THEN Result("Reverse Flow", "warning", NoTrend)
    ELSE IF voltage >= bypass_voltage_floor /\ current < current_min
      THEN Result("Bypass Detected", "critical", NoTrend)
    ELSE IF voltage < voltage_normal_min \/ voltage > voltage_normal_max
      THEN Result("Voltage Anomaly", "warning", NoTrend)
    ELSE IF current > overload_threshold
      THEN Result("Overload Detected", "warning", NoTrend)
    ELSE IF voltage < voltage_tamper_threshold
      THEN Result("Voltage Tamper", "critical", NoTrend)
    ELSE IF Len(hist) > TREND_MIN_SAMPLES
      THEN LET avg == AvgPower(hist)
           IN  IF PowerDrop(avg, power)
                 THEN Result("Power Mismatch", "warning", avg)
                 ELSE Result("Normal", "info", avg)
    ELSE Result("Normal", "info", NoTrend)

\* The if/elif chain with rule 7 reached from 5 samples on: >= 5 for > 5.
RuleChain_TrendFromFive(hist, threshold, voltage, current, magnetic_field, power) ==
    IF magnetic_field > threshold
      THEN Result("Magnetic Tamper", "critical", NoTrend)
    ELSE IF current < reverse_threshold
      THEN Result("Reverse Flow", "warning", NoTrend)
    ELSE IF voltage >= bypass_voltage_floor /\ current < current_min
      THEN Result("Bypass Detected", "critical", NoTrend)
    ELSE IF current > overload_threshold
      THEN Result("Overload Detected", "warning", NoTrend)
    ELSE IF voltage < voltage_tamper_threshold
      THEN Result("Voltage Tamper", "critical", NoTrend)
    ELSE IF voltage < voltage_normal_min \/ voltage > voltage_normal_max
      THEN Result("Voltage Anomaly", "warning", NoTrend)
    ELSE IF Len(hist) >= TREND_MIN_SAMPLES
      THEN LET avg == AvgPower(hist)
           IN  IF PowerDrop(avg, power)
                 THEN Result("Power Mismatch", "warning", avg)
                 ELSE Result("Normal", "info", avg)
    ELSE Result("Normal", "info", NoTrend)

\* The if/elif chain of detect_tamper over the power history `hist` and the
\* magnetic threshold, as they are when the chain runs.
RuleChain(hist, threshold, voltage, current, magnetic_field, power) ==
    IF magnetic_field > threshold
      THEN Result("Magnetic Tamper", "critical", NoTrend)
    ELSE IF current < reverse_threshold
      THEN Result("Reverse Flow", "warning", NoTrend)
    ELSE IF voltage >= bypass_voltage_floor /\ current < current_min
      THEN Result("Bypass Detected", "critical", NoTrend)
    ELSE IF current > overload_threshold
      THEN Result("Overload Detected", "warning", NoTrend)
    ELSE IF voltage < voltage_tamper_threshold
      THEN Result("Voltage Tamper", "critical", NoTrend)
    ELSE IF voltage < voltage_normal_min \/ voltage > voltage_normal_max
      THEN Result("Voltage Anomaly", "warning", NoTrend)
    ELSE IF Len(hist) > TREND_MIN_SAMPLES
      THEN LET avg == AvgPower(hist)
           IN  IF PowerDrop(avg, power)
                 THEN Result("Power Mismatch", "warning", avg)
                 ELSE Result("Normal", "info", avg)
    ELSE Result("Normal", "info", NoTrend)

\* pop() in place of pop(0): the newest entry goes.
Evict_Newest(hist) ==
    IF Len(hist) > HISTORY_LIMIT THEN SubSeq(hist, 1, Len(hist) - 1) ELSE hist

\* if len(history) > 50: history.pop(0)
Evict(hist) == IF Len(hist) > HISTORY_LIMIT THEN Tail(hist) ELSE hist

\* The histories appended to before the rule chain runs.
detect_tamper_AppendFirst(voltage, current, magnetic_field, power) ==
    LET res == RuleChain(Append(power_history, power), magnetic_tamper_threshold,
                         voltage, current, magnetic_field, power)
    IN  /\ event' = [event_type |-> res.event_type, severity |-> res.severity]
        /\ trend' = res.trend
        /\ voltage_history' = Evict(Append(voltage_history, voltage))
        /\ current_history' = Evict(Append(current_history, current))
        /\ power_history' = Evict(Append(power_history, power))
        /\ UNCHANGED <<magnetic_tamper_threshold, config>>

\* TamperDetector.detect_tamper: the rule chain on the histories as they are,
\* then the three appends and the eviction.
detect_tamper(voltage, current, magnetic_field, power) ==
    LET res == RuleChain(power_history, magnetic_tamper_threshold,
                         voltage, current, magnetic_field, power)
    IN  /\ event' = [event_type |-> res.event_type, severity |-> res.severity]
        /\ trend' = res.trend
        /\ voltage_history' = Evict(Append(voltage_history, voltage))
        /\ current_history' = Evict(Append(current_history, current))
        /\ power_history' = Evict(Append(power_history, power))
        /\ UNCHANGED <<magnetic_tamper_threshold, config>>

NoEvent == [event_type |-> "none", severity |-> "none"]

\* The threshold attributes TamperDetector.__init__ sets, other than
\* magnetic_tamper_threshold, with their defaults.  The entry
\* bypass_voltage_floor is no attribute of the class: it holds the value a
\* caller has assigned to an attribute of that name (Python creates it), or
\* the 4.5 of line 50 if none has.
DefaultConfig ==
    [voltage_normal_min |-> voltage_normal_min,
     voltage_normal_max |-> voltage_normal_max,
     voltage_tamper_threshold |-> voltage_tamper_threshold,
     current_min |-> current_min,
     overload_threshold |-> overload_threshold,
     reverse_threshold |-> reverse_threshold,
     bypass_voltage_floor |-> bypass_voltage_floor]

\* The if/elif chain of detect_tamper reading its thresholds from the
\* attributes `attrs` of the object; rule 3 compares with the literal 4.5.
AttrChain(attrs, hist, threshold, voltage, current, magnetic_field, power) ==
    IF magnetic_field > threshold
      THEN Result("Magnetic Tamper", "critical", NoTrend)
    ELSE IF current < attrs.reverse_threshold
      THEN Result("Reverse Flow", "warning", NoTrend)
    ELSE IF voltage >= bypass_voltage_floor /\ current < attrs.current_min
      THEN Result("Bypass Detected", "critical", NoTrend)
    ELSE IF current > attrs.overload_threshold
      THEN Result("Overload Detected", "warning", NoTrend)
    ELSE IF voltage < attrs.voltage_tamper_threshold
      THEN Result("Voltage Tamper", "critical", NoTrend)
    ELSE IF voltage < attrs.voltage_normal_min \/ voltage > attrs.voltage_normal_max
      THEN Result("Voltage Anomaly", "warning", NoTrend)
    ELSE IF Len(hist) > TREND_MIN_SAMPLES
      THEN LET avg == AvgPower(hist)
           IN  IF PowerDrop(avg, power)
                 THEN Result("Power Mismatch", "warning", avg)
                 ELSE Result("Normal", "info", avg)
    ELSE Result("Normal", "info", NoTrend)

\* TamperDetector.detect_tamper on an object whose attributes a caller may
\* have reassigned.
detect_tamper_attrs(voltage, current, magnetic_field, power) ==
    LET res == AttrChain(config, power_history, magnetic_tamper_threshold,
                         voltage, current, magnetic_field, power)
    IN  /\ event' = [event_type |-> res.event_type, severity |-> res.severity]
        /\ trend' = res.trend
        /\ voltage_history' = Evict(Append(voltage_history, voltage))
        /\ current_history' = Evict(Append(current_history, current))
        /\ power_history' = Evict(Append(power_history, power))
        /\ UNCHANGED <<magnetic_tamper_threshold, config>>

\* sum(history) / len(history), kept as the pair (total, count).
Mean(hist) == [total |-> SumSeq(hist), count |-> Len(hist)]
MinOf(hist) ==
    CHOOSE x \in { hist[i] : i \in 1..Len(hist) } : \A j \in 1..Len(hist) : x <= hist[j]
MaxOf(hist) ==
    CHOOSE x \in { hist[i] : i \in 1..Len(hist) } : \A j \in 1..Len(hist) : x >= hist[j]

\* TamperDetector.get_statistics: None when voltage_history is empty, else
\* the dict of lines 100-108 with exactly these seven keys.
get_statistics ==
    IF voltage_history = <<>>
      THEN [none |-> TRUE]
      ELSE [none |-> FALSE,
            avg_voltage |-> Mean(voltage_history),
            avg_current |-> Mean(current_history),
            avg_power |-> Mean(power_history),
            min_voltage |-> MinOf(voltage_history),
            max_voltage |-> MaxOf(voltage_history),
            min_current |-> MinOf(current_history),
            max_current |-> MaxOf(current_history)]

DetectorInit ==
    /\ voltage_history = <<>>
    /\ current_history = <<>>
    /\ power_history = <<>>
    /\ magnetic_tamper_threshold = magnetic_tamper_default
    /\ config = DefaultConfig
    /\ event = NoEvent
    /\ trend = NoTrend
    /\ arrived = <<>>


-----------------------------------------------------------------------------
(* simulator.generate_reading *)

Scenarios == {"magnetic", "bypass", "overload", "voltage", "reverse"}

\* Values random.random() and random.uniform(a, b) can return, in
\* thousandths: the end points of each range and values next to them that
\* round(x, 2) moves.  random.random() is in [0, 1).
DrawU == {0, 999}
DrawV == {-200, 4, 200}
DrawC == {-300, 4, 300}
DrawM == {-5000, 5000}
ScenarioDraw(case) ==
    CASE case = "magnetic" -> {60000, 60004, 60006, 100000}
      [] case = "bypass"   -> {0, 20}
      [] case = "overload" -> {2000, 2004, 2006, 5000}
      [] case = "voltage"  -> {1800, 2600}
      [] case = "reverse"  -> {200, 1000}

\* A generator whose voltage check sets the hint either way: "Voltage
\* Tamper" below 2.7 V and "Normal" otherwise, over the scenario's hint.
GenerateReading_RelabelOverwrites(tamper_probability, u, dv, dc, dm, case, s) ==
    LET tampered == u < tamper_probability
        voltage == IF tampered /\ case = "voltage" THEN s ELSE 5000 + dv
        current == IF tampered /\ case = "bypass" THEN s
                   ELSE IF tampered /\ case = "overload" THEN s
                   ELSE IF tampered /\ case = "reverse" THEN (-1) * s
                   ELSE 400 + dc
        mag == IF tampered /\ case = "magnetic" THEN s ELSE 15000 + dm
        tamper_type == IF voltage < 2700 THEN "Voltage Tamper" ELSE "Normal"
    IN  [voltage |-> Round2(voltage), current |-> Round2(current),
         magnetic_field |-> Round2(mag), tamper_type |-> tamper_type]

\* generate_reading(tamper_probability) with its random draws as parameters:
\* u = random.random(), dv, dc, dm the three baseline noises, case the
\* scenario random.choice picks and s the scenario's uniform draw.
GenerateReading(tamper_probability, u, dv, dc, dm, case, s) ==
    LET tampered == u < tamper_probability
        voltage == IF tampered /\ case = "voltage" THEN s ELSE 5000 + dv
        current == IF tampered /\ case = "bypass" THEN s
                   ELSE IF tampered /\ case = "overload" THEN s
                   ELSE IF tampered /\ case = "reverse" THEN (-1) * s
                   ELSE 400 + dc
        mag == IF tampered /\ case = "magnetic" THEN s ELSE 15000 + dm
        label == IF ~tampered THEN "Normal"
                 ELSE CASE case = "magnetic" -> "Magnetic Tamper"
                        [] case = "bypass"   -> "Bypass Tamper"
                        [] case = "overload" -> "Overload Tamper"
                        [] case = "voltage"  -> "Voltage Tamper"
                        [] case = "reverse"  -> "Reverse Flow Tamper"
        tamper_type == IF voltage < 2700 THEN "Voltage Tamper" ELSE label
    IN  [voltage |-> Round2(voltage), current |-> Round2(current),
         magnetic_field |-> Round2(mag), tamper_type |-> tamper_type]

\* Every reading generate_reading(p) returns for draws from the given sets.
GeneratedReadings(p, DV, DC, DM) ==
    UNION { { GenerateReading(p, u, dv, dc, dm, case, s) :
                u \in DrawU, dv \in DV, dc \in DC, dm \in DM, s \in ScenarioDraw(case) } :
            case \in Scenarios }

\* The baseline noises of the warm-up stream: the extremes of the current.
WarmDV == {200}
WarmDC == {-300, 300}
WarmDM == {5000}

-----------------------------------------------------------------------------
(* SerialReader *)

Ports == {"COM4", "COM5"}
READER_LOW_VOLTAGE == 270

NoSer == [present |-> FALSE, port |-> "", is_open |-> FALSE]
Transport(p) == [present |-> TRUE, port |-> p, is_open |-> TRUE]

NoData == [voltage |-> 0, current |-> 0, magnetic_field |-> 0, power |-> 0,
           tamper_type |-> ""]
Returned(kind, data) == [kind |-> kind, data |-> data]
None == Returned("none", NoData)
Raised == Returned("raised", NoData)

NoLine == [fields |-> <<>>, nl |-> FALSE, utf8 |-> TRUE, any |-> FALSE]
NoCall == [op |-> "", attempted |-> FALSE, waited |-> FALSE,
           had_record |-> FALSE, healthy |-> FALSE, line |-> NoLine]

\* A line of the stream, and the random choices behind it.
NoRecord == [voltage |-> 0, current |-> 0, magnetic_field |-> 0, tamper_type |-> ""]
NoDraw == [tampered |-> FALSE, case |-> ""]

\* Before run_server is called: no socket, no client.
ServerOff ==
    [state |-> "off", tamper_probability |-> 0, backlog |-> <<>>, conn |-> 0,
     reset |-> FALSE, sent |-> 0, last_send |-> "none", line |-> NoRecord,
     draw |-> NoDraw, peer |-> [c \in 1..MaxClients |-> "idle"]]

\* Before TamperUI.__init__: nothing exists yet.
SystemIdle ==
    /\ constructed = FALSE
    /\ port = "COM4"
    /\ mock_mode = FALSE
    /\ ser = NoSer
    /\ link = "ok"
    /\ rx = <<>>
    /\ call = NoCall
    /\ ret = None
    /\ returned = <<>>
    /\ logged = <<>>
    /\ running = FALSE
    /\ thread = [t \in 1..MaxThreads |-> "unborn"]
    /\ pending = <<>>
    /\ ui = "off"
    /\ voltage_data = <<>>
    /\ stats_updates = 0
    /\ server = ServerOff

\* One comma-separated field of a record: text float() accepts, with its
\* value in hundredths, or text it rejects with ValueError.
Num(x) == [num |-> TRUE, val |-> x, text |-> ""]
Txt(t) == [num |-> FALSE, val |-> 0, text |-> t]

\* What the transport holds: a newline-terminated record, the start of a
\* record whose newline has not arrived, or bytes that are not UTF-8.
Line(fields) == [fields |-> fields, nl |-> TRUE, utf8 |-> TRUE, any |-> TRUE]
Partial(fields) == [fields |-> fields, nl |-> FALSE, utf8 |-> TRUE, any |-> TRUE]
Garbage == [fields |-> <<>>, nl |-> TRUE, utf8 |-> FALSE, any |-> TRUE]

\* "4.98,0.42,13.1,Normal", "2.5,0.3,10", "5.0,abc,10", "5.0,0.4,abc,Normal",
\* "5.0,0.4", a blank line and undecodable bytes.
LiveRecords ==
    { Line(<<Num(498), Num(42), Num(1310), Txt("Normal")>>),
      Line(<<Num(250), Num(30), Num(1000)>>),
      Line(<<Num(500), Txt("abc"), Num(1000)>>),
      Line(<<Num(500), Num(40), Txt("abc"), Txt("Normal")>>),
      Line(<<Num(500), Num(40)>>),
      Line(<<>>),
      Garbage }
\* "4.98,0.42,13", the start of "4.98,0.42,13.1,Normal".
PartialRecords == { Partial(<<Num(498), Num(42), Num(1300)>>) }

\* tamper_type = parts[3].strip()
HintOf(field) == IF field.num THEN "numeric" ELSE field.text

\* The result dict without the low-voltage relabelling of lines 73-74.
MakeReading_KeepsHint(voltage, current, magnetic_field, hint) ==
    [voltage |-> voltage, current |-> current, magnetic_field |-> magnetic_field,
     power |-> PowerOf(voltage, current),
     tamper_type |-> hint]

\* Lines 69-83: the derived power, the low-voltage relabelling, the dict.
MakeReading(voltage, current, magnetic_field, hint) ==
    [voltage |-> voltage, current |-> current, magnetic_field |-> magnetic_field,
     power |-> PowerOf(voltage, current),
     tamper_type |-> IF voltage < READER_LOW_VOLTAGE /\ hint = "Normal"
                       THEN "Voltage Tamper" ELSE hint]

AllNumeric(parts) == parts[1].num /\ parts[2].num /\ parts[3].num

\* A parser that reads a field float() rejects as 0.0 and a missing third
\* field as 0.0.
ParseLine_Lenient(line) ==
    IF ~line.utf8 THEN None
    ELSE LET parts == line.fields
         IN  IF parts = <<>> THEN None
             ELSE IF Len(parts) >= 4
               THEN Returned("reading", MakeReading(parts[1].val, parts[2].val,
                                                    parts[3].val, HintOf(parts[4])))
             ELSE IF Len(parts) = 3
               THEN Returned("reading", MakeReading(parts[1].val, parts[2].val,
                                                    parts[3].val, "Normal"))
             ELSE IF Len(parts) = 2
               THEN Returned("reading", MakeReading(parts[1].val, parts[2].val, 0, "Normal"))
             ELSE None

\* The body of the try block of read_sensor_data on the line readline()
\* returned: decode, strip, split, float; any exception gives None.
ParseLine(line) ==
    IF ~line.utf8 THEN None
    ELSE LET parts == line.fields
         IN  IF parts = <<>> THEN None
             ELSE IF Len(parts) >= 4
               THEN IF AllNumeric(parts)
                      THEN Returned("reading", MakeReading(parts[1].val, parts[2].val,
                                                           parts[3].val, HintOf(parts[4])))
                      ELSE None
             ELSE IF Len(parts) = 3
               THEN IF AllNumeric(parts)
                      THEN Returned("reading", MakeReading(parts[1].val, parts[2].val,
                                                           parts[3].val, "Normal"))
                      ELSE None
             ELSE None

MOCK_TAMPER_CHANCE == 250

\* A mock generator whose reverse scenario keeps the current positive.
GenerateMockData_ReversePositive(u, dv, dc, dm, case, s) ==
    LET tampered == u < MOCK_TAMPER_CHANCE
        voltage == IF tampered /\ case = "voltage" THEN s ELSE 5000 + dv
        current == IF tampered /\ case \in {"bypass", "overload", "reverse"} THEN s
                   ELSE 400 + dc
        mag == IF tampered /\ case = "magnetic" THEN s ELSE 15000 + dm
        label == IF ~tampered THEN "Normal"
                 ELSE CASE case = "magnetic" -> "Magnetic Tamper"
                        [] case = "bypass"   -> "Bypass Tamper"
                        [] case = "overload" -> "Overload Tamper"
                        [] case = "voltage"  -> "Voltage Tamper"
                        [] case = "reverse"  -> "Reverse Flow Tamper"
    IN  [voltage |-> Round2(voltage), current |-> Round2(current),
         magnetic_field |-> Round2(mag),
         power |-> RoundHalfEven(voltage * current, 1000),
         tamper_type |-> IF voltage < 2700 THEN "Voltage Tamper" ELSE label]

\* _generate_mock_data with its random draws as parameters, as
\* GenerateReading; power is round(voltage * current, 3) of the unrounded
\* voltage and current.
GenerateMockData(u, dv, dc, dm, case, s) ==
    LET tampered == u < MOCK_TAMPER_CHANCE
        voltage == IF tampered /\ case = "voltage" THEN s ELSE 5000 + dv
        current == IF tampered /\ case = "bypass" THEN s
                   ELSE IF tampered /\ case = "overload" THEN s
                   ELSE IF tampered /\ case = "reverse" THEN (-1) * s
                   ELSE 400 + dc
        mag == IF tampered /\ case = "magnetic" THEN s ELSE 15000 + dm
        label == IF ~tampered THEN "Normal"
                 ELSE CASE case = "magnetic" -> "Magnetic Tamper"
                        [] case = "bypass"   -> "Bypass Tamper"
                        [] case = "overload" -> "Overload Tamper"
                        [] case = "voltage"  -> "Voltage Tamper"
                        [] case = "reverse"  -> "Reverse Flow Tamper"
    IN  [voltage |-> Round2(voltage), current |-> Round2(current),
         magnetic_field |-> Round2(mag),
         power |-> RoundHalfEven(voltage * current, 1000),
         tamper_type |-> IF voltage < 2700 THEN "Voltage Tamper" ELSE label]

\* Every reading _generate_mock_data returns for draws from the given sets.
MockData(DV, DC, DM, cases) ==
    UNION { { GenerateMockData(u, dv, dc, dm, case, s) :
                u \in DrawU, dv \in DV, dc \in DC, dm \in DM,
                s \in ScenarioDraw(case) } : case \in cases }

\* The mock readings of a run: in SpecMock every scenario, with baseline
\* noises at one end of their ranges and at a value round(x, 2) moves;
\* elsewhere the baseline and the voltage scenario.
MockCases == {"voltage"}
MockDV == {-200, 4}
MockDC == {4, 300}
MockDM == WarmDM
MockReadings ==
    IF phase = "mock"
      THEN MockData(MockDV, MockDC, MockDM, Scenarios)
      ELSE MockData(WarmDV, {300}, WarmDM, MockCases)

NextCall(op, attempted, waited, had_record, healthy, line) ==
    [op |-> op, attempted |-> attempted, waited |-> waited,
     had_record |-> had_record, healthy |-> healthy, line |-> line]

\* The constructor falling back to mock mode when the port cannot be opened.
SerialReader_init_FallbackToMock(mock, ok) ==
    /\ port' = "COM4"
    /\ mock_mode' = (mock \/ ~ok)
    /\ ser' = IF ~mock /\ ok THEN Transport("COM4") ELSE NoSer
    /\ link' = "ok"
    /\ rx' = <<>>
    /\ call' = NextCall("__init__", ~mock, FALSE, FALSE, FALSE, NoLine)
    /\ ret' = None

\* SerialReader.__init__(port="COM4", baudrate=9600, mock_mode=mock); ok says
\* whether serial.Serial(...) returns a transport or raises.
SerialReader_init(mock, ok) ==
    /\ port' = "COM4"
    /\ mock_mode' = mock
    /\ ser' = IF ~mock /\ ok THEN Transport("COM4") ELSE NoSer
    /\ link' = "ok"
    /\ rx' = <<>>
    /\ call' = NextCall("__init__", ~mock, FALSE, FALSE, FALSE, NoLine)
    /\ ret' = None

\* open_port without its already-open test.
open_port_AlwaysReopen(ok) ==
    /\ ser' = IF ok THEN Transport(port) ELSE NoSer
    /\ link' = "ok"
    /\ rx' = <<>>
    /\ call' = NextCall("open_port", TRUE, FALSE, FALSE, FALSE, NoLine)
    /\ ret' = Returned(IF ok THEN "True" ELSE "False", NoData)

\* SerialReader.open_port; ok says whether serial.Serial(...) returns a
\* transport or raises.  A new transport starts with an empty buffer.
open_port(ok) ==
    IF ser.present /\ ser.is_open
      THEN /\ call' = NextCall("open_port", FALSE, FALSE, FALSE, FALSE, NoLine)
           /\ ret' = Returned("True", NoData)
           /\ UNCHANGED <<ser, link, rx>>
      ELSE /\ ser' = IF ok THEN Transport(port) ELSE NoSer
           /\ link' = "ok"
           /\ rx' = <<>>
           /\ call' = NextCall("open_port", TRUE, FALSE, FALSE, FALSE, NoLine)
           /\ ret' = Returned(IF ok THEN "True" ELSE "False", NoData)

HasRecord(buf) == \E i \in 1..Len(buf) : buf[i].nl

Outcome(r, buf, lnk, waited, healthy, line) ==
    [ret |-> r, rx |-> buf, link |-> lnk, waited |-> waited,
     had_record |-> HasRecord(rx), healthy |-> healthy, line |-> line]

\* What one read_sensor_data call can do in the current state.  In mock mode
\* it returns a mock reading.  With no transport it returns None.  The
\* in_waiting property is read outside the try block: on a transport that
\* close() has closed, or whose device is gone, it raises and the exception
\* leaves read_sensor_data.  With bytes waiting, readline() (timeout 1 s)
\* returns the first buffered line, or waits for the timeout and returns the
\* bytes of an unfinished line; if the device fails during the read it
\* raises, which the except clause turns into None.
ReadOutcomes ==
    IF mock_mode
      THEN { Outcome(Returned("reading", m), rx, link, FALSE, FALSE, NoLine) :
               m \in MockReadings }
    ELSE IF ~ser.present
      THEN { Outcome(None, rx, link, FALSE, FALSE, NoLine) }
    ELSE IF ~ser.is_open \/ link = "lost"
      THEN { Outcome(Raised, rx, link, FALSE, FALSE, NoLine) }
    ELSE IF rx = <<>>
      THEN { Outcome(None, rx, link, FALSE, TRUE, NoLine) }
    ELSE { Outcome(ParseLine(Head(rx)), Tail(rx), link, ~Head(rx).nl, TRUE, Head(rx)),
           Outcome(None, rx, "lost", FALSE, FALSE, NoLine) }

\* SerialReader.read_sensor_data taking the outcome o.
read_sensor_data(o) ==
    /\ ret' = o.ret
    /\ rx' = o.rx
    /\ link' = o.link
    /\ call' = NextCall("read_sensor_data", FALSE, o.waited, o.had_record, o.healthy, o.line)
    /\ UNCHANGED <<port, mock_mode, ser>>

\* SerialReader.close
close ==
    /\ ser' = IF ser.present /\ ser.is_open THEN [ser EXCEPT !.is_open = FALSE] ELSE ser
    /\ call' = NextCall("close", FALSE, FALSE, FALSE, FALSE, NoLine)
    /\ ret' = None
    /\ UNCHANGED <<port, mock_mode, link, rx>>

-----------------------------------------------------------------------------
(* Streams of readings into the detector *)

\* A live record "v,c,m[,hint]" as read_sensor_data returns it: power is
\* round(voltage * current, 3); update_readings passes the four numbers on.
Reading(voltage, current, magnetic_field, power, src) ==
    [voltage |-> voltage, current |-> current, magnetic_field |-> magnetic_field,
     power |-> power, src |-> src]

\* update_readings' call of detect_tamper on one reading.
Classify(r) ==
    /\ detect_tamper(r.voltage, r.current, r.magnetic_field, r.power)
    /\ arrived' = Append(arrived, r)

FromGenerator(g, src) ==
    Reading(g.voltage, g.current, g.magnetic_field, PowerOf(g.voltage, g.current), src)

\* Values on both sides of every threshold of the rule chain.
GridVoltage == {260, 270, 449, 450, 469, 470, 520, 521}
GridCurrent == {-11, -10, 4, 5, 200, 201}
GridMagnetic == {6000, 6001}
GridPower == {0}

WarmUp ==
    /\ phase = "warm"
    /\ Len(arrived) < MaxWarm
    /\ \E g \in GeneratedReadings(0, WarmDV, WarmDC, WarmDM) :
          Classify(FromGenerator(g, "gen0"))
    /\ UNCHANGED <<phase, system_vars>>

ProbeGen0 ==
    /\ phase = "warm"
    /\ \E g \in GeneratedReadings(0, DrawV, DrawC, DrawM) :
          Classify(FromGenerator(g, "gen0"))
    /\ phase' = "probed"
    /\ UNCHANGED system_vars

ProbeGen1 ==
    /\ phase = "warm"
    /\ \E g \in GeneratedReadings(1000, DrawV, DrawC, DrawM) :
          Classify(FromGenerator(g, "gen1"))
    /\ phase' = "probed"
    /\ UNCHANGED system_vars

ProbeGrid ==
    /\ phase = "warm"
    /\ \E v \in GridVoltage, c \in GridCurrent, m \in GridMagnetic :
          \E p \in GridPower \cup {PowerOf(v, c)} :
             Classify(Reading(v, c, m, p, "live"))
    /\ phase' = "probed"
    /\ UNCHANGED system_vars

DetectInit == DetectorInit /\ SystemIdle /\ phase = "warm"
DetectNext == WarmUp \/ ProbeGen0 \/ ProbeGen1 \/ ProbeGrid
SpecDetect == DetectInit /\ [][DetectNext]_vars

\* A stream long enough to fill the histories past their limit: two
\* generator readings that differ on every channel, changing value at most
\* MaxSwitch times.
WindowReadings ==
    { FromGenerator(GenerateReading(0, 0, -200, -300, 5000, "magnetic", 60000), "gen0"),
      FromGenerator(GenerateReading(0, 0, 200, 300, 5000, "magnetic", 60000), "gen0") }

Switches(s) == Cardinality({ i \in 1..(Len(s) - 1) : s[i] # s[i + 1] })

WindowFeed ==
    /\ phase = "stream"
    /\ Len(arrived) < MaxStream
    /\ \E r \in WindowReadings :
          /\ Switches(Append(arrived, r)) <= MaxSwitch
          /\ Classify(r)
    /\ UNCHANGED <<phase, system_vars>>

WindowInit == DetectorInit /\ SystemIdle /\ phase = "stream"
WindowNext == WindowFeed
SpecWindow == WindowInit /\ [][WindowNext]_vars

\* A caller reassigns thresholds of the detector, then readings on both sides
\* of every threshold are classified.  Each new value moves the threshold
\* across a value of the grid.
Overrides ==
    { <<"voltage_normal_min", 440>>, <<"voltage_normal_max", 530>>,
      <<"voltage_tamper_threshold", 265>>, <<"current_min", 3>>,
      <<"overload_threshold", 250>>, <<"reverse_threshold", -20>>,
      <<"bypass_voltage_floor", 400>>, <<"magnetic_tamper_threshold", 7000>> }

Overridden ==
    Cardinality({ n \in DOMAIN config : config[n] # DefaultConfig[n] })
    + (IF magnetic_tamper_threshold # magnetic_tamper_default THEN 1 ELSE 0)

\* detector.<name> = value
SetThreshold(name, value) ==
    /\ phase = "config"
    /\ Overridden < MaxOverride
    /\ IF name = "magnetic_tamper_threshold"
         THEN magnetic_tamper_threshold' = value /\ UNCHANGED config
         ELSE config' = [config EXCEPT ![name] = value]
              /\ UNCHANGED magnetic_tamper_threshold
    /\ UNCHANGED <<voltage_history, current_history, power_history, event, trend,
                   arrived, phase, system_vars>>

ConfigProbe ==
    /\ phase = "config"
    /\ Len(arrived) < MaxProbe
    /\ \E v \in GridVoltage, c \in GridCurrent, m \in GridMagnetic :
          LET r == Reading(v, c, m, PowerOf(v, c), "live")
          IN  /\ detect_tamper_attrs(r.voltage, r.current, r.magnetic_field, r.power)
              /\ arrived' = Append(arrived, r)
    /\ UNCHANGED <<phase, system_vars>>

ConfigInit == DetectorInit /\ SystemIdle /\ phase = "config"
ConfigNext ==
    \/ \E o \in Overrides : SetThreshold(o[1], o[2])
    \/ ConfigProbe
SpecConfig == ConfigInit /\ [][ConfigNext]_vars

-----------------------------------------------------------------------------
(* TamperUI: the monitor loop and the handlers that reach the reader *)

Thresholds == {6000}

\* The four numbers update_readings takes from the dict of a reading.
AsReading(data) ==
    Reading(data.voltage, data.current, data.magnetic_field, data.power,
            IF mock_mode THEN "mock" ELSE "live")

\* DataLogger.log: one row appended to the CSV file; ok says whether open()
\* and writerow() succeed or raise (file locked, disk full, directory gone).
log(row, ok) == logged' = IF ok THEN Append(logged, row) ELSE logged

\* Whether a logger.log call can fail: the log file is writable throughout,
\* except in the runs of SpecMonitor, where any write may fail.
LogOutcomes == IF phase = "monitor" THEN BOOLEAN ELSE {TRUE}

data_points == 200
STATS_PERIOD == 5

\* Lines 995-1006: a graph array keeps its last data_points entries.  The
\* arrays of current, power and magnetic field are appended to and trimmed
\* together with voltage_data.
Trim(data) == IF Len(data) > data_points THEN Tail(data) ELSE data

\* Lines 1008-1044 for the row `row`: logger.log, and if it returns (ok),
\* update_statistics when the length of the graph array is a multiple of 5.
\* An exception of logger.log skips the rest of the handler.
LogAndCount(row) ==
    \E ok \in LogOutcomes :
       /\ log(row, ok)
       /\ stats_updates' = IF ok /\ Len(voltage_data') % STATS_PERIOD = 0
                             THEN stats_updates + 1 ELSE stats_updates

\* An update_readings that takes a hint other than "Normal" as the category.
update_readings_TrustsHint(data) ==
    LET r == AsReading(data)
    IN  /\ IF data.tamper_type = "Normal"
             THEN Classify(r)
             ELSE /\ event' = [event_type |-> data.tamper_type, severity |-> "critical"]
                  /\ trend' = NoTrend
                  /\ voltage_history' = Evict(Append(voltage_history, r.voltage))
                  /\ current_history' = Evict(Append(current_history, r.current))
                  /\ power_history' = Evict(Append(power_history, r.power))
                  /\ arrived' = Append(arrived, r)
                  /\ UNCHANGED <<magnetic_tamper_threshold, config>>
        /\ voltage_data' = Trim(Append(voltage_data, r.voltage))
        /\ LogAndCount([reading |-> r, event_type |-> event'.event_type])

\* update_readings(data): the reading goes through detect_tamper, into the
\* graph arrays, then to logger.log with the category; an exception of
\* logger.log is caught by the handler's except clause and printed.
update_readings(data) ==
    LET r == AsReading(data)
    IN  /\ Classify(r)
        /\ voltage_data' = Trim(Append(voltage_data, r.voltage))
        /\ LogAndCount([reading |-> r, event_type |-> event'.event_type])

Unborn == { t \in 1..MaxThreads : thread[t] = "unborn" }
FreshThread == CHOOSE t \in Unborn : \A u \in Unborn : t <= u

\* TamperUI.__init__: the reader, the detector, and create_ui's automatic
\* start_monitoring, which starts the first monitor_loop thread.  ui.py
\* passes mock_mode=False; mock = TRUE is the mock reader that the mock_mode
\* tests of save_settings and monitor_loop provide for.
Construct(mock, ok) ==
    /\ ~constructed
    /\ phase \in {"system", "monitor", "stop", "record", "mock", "graph"}
    /\ SerialReader_init(mock, ok)
    /\ constructed' = TRUE
    /\ running' = TRUE
    /\ thread' = [thread EXCEPT ![1] = "open"]
    /\ ui' = "up"
    /\ UNCHANGED <<detector_vars, phase, sim_vars, log_vars, graph_vars, pending>>

InFlight == Len(rx) + Len(pending) + Len(arrived)
InputCap ==
    IF phase \in {"monitor", "record"} THEN MaxQueue
    ELSE IF phase = "graph" THEN MaxGraph
    ELSE MaxInputs
NoReaderCall == call' = NoCall /\ ret' = None

\* The device sends a record, or the start of one.
Deliver(item) ==
    /\ ser.present /\ ser.is_open /\ link = "ok"
    /\ InFlight < InputCap
    /\ Len(rx) < MaxBuf
    /\ IF rx = <<>> THEN TRUE ELSE rx[Len(rx)].nl
    /\ rx' = Append(rx, item)
    /\ NoReaderCall
    /\ UNCHANGED <<detector_vars, phase, sim_vars, port, mock_mode, ser, link, log_vars, graph_vars, ui_vars>>

\* The device is unplugged, or the peer of a socket:// transport goes away.
Unplug ==
    /\ ser.present /\ ser.is_open /\ link = "ok"
    /\ link' = "lost"
    /\ NoReaderCall
    /\ UNCHANGED <<detector_vars, phase, sim_vars, port, mock_mode, ser, rx, log_vars, graph_vars, ui_vars>>

\* save_settings(com_port, threshold): the new port and threshold, then
\* open_port unless in mock mode.
save_settings(com_port, threshold, ok) ==
    /\ ui = "up"
    /\ port' = com_port
    /\ magnetic_tamper_threshold' = threshold
    /\ IF ~mock_mode
         THEN open_port(ok)
         ELSE NoReaderCall /\ UNCHANGED <<ser, link, rx>>
    /\ UNCHANGED <<voltage_history, current_history, power_history, config, event, trend,
                   arrived, phase, sim_vars, mock_mode, log_vars, graph_vars, ui_vars>>

\* refresh_data: one read on the UI thread; a reading goes straight to
\* update_readings, and an exception of the read leaves the handler.
refresh_data ==
    /\ ui = "up"
    /\ mock_mode => InFlight < InputCap
    /\ \E o \in ReadOutcomes :
          /\ read_sensor_data(o)
          /\ IF o.ret.kind = "reading"
               THEN /\ returned' = Append(returned, AsReading(o.ret.data))
                    /\ update_readings(o.ret.data)
               ELSE UNCHANGED <<detector_vars, log_vars, graph_vars>>
    /\ UNCHANGED <<phase, sim_vars, ui_vars>>

\* start_monitoring without its test of self.running.
start_monitoring_NoGuard ==
    /\ ui = "up"
    /\ Unborn # {}
    /\ running' = TRUE
    /\ thread' = [thread EXCEPT ![FreshThread] = "open"]
    /\ call' = NextCall("start_monitoring", ~running, FALSE, FALSE, FALSE, NoLine)
    /\ ret' = None
    /\ UNCHANGED <<detector_vars, phase, sim_vars, reader_vars, log_vars, graph_vars, constructed, pending, ui>>

\* start_monitoring: nothing when already running, else a new thread.
start_monitoring ==
    /\ ui = "up"
    /\ IF running
         THEN UNCHANGED <<running, thread>>
         ELSE /\ Unborn # {}
              /\ running' = TRUE
              /\ thread' = [thread EXCEPT ![FreshThread] = "open"]
    /\ call' = NextCall("start_monitoring", ~running, FALSE, FALSE, FALSE, NoLine)
    /\ ret' = None
    /\ UNCHANGED <<detector_vars, phase, sim_vars, reader_vars, log_vars, graph_vars, constructed, pending, ui>>

\* stop_monitoring: the flag is cleared; join(timeout=1.0) changes nothing.
stop_monitoring ==
    /\ ui = "up"
    /\ running' = FALSE
    /\ call' = NextCall("stop_monitoring", running, FALSE, FALSE, FALSE, NoLine)
    /\ ret' = None
    /\ UNCHANGED <<detector_vars, phase, sim_vars, reader_vars, log_vars, graph_vars, constructed, thread,
                   pending, ui>>

\* monitor_loop, lines 1120-1121: open the port if it is not open.
MonitorOpen(t, ok) ==
    /\ thread[t] = "open"
    /\ IF ~mock_mode /\ (~ser.present \/ ~ser.is_open)
         THEN open_port(ok)
         ELSE NoReaderCall /\ UNCHANGED <<ser, link, rx>>
    /\ thread' = [thread EXCEPT ![t] = "check"]
    /\ UNCHANGED <<detector_vars, phase, sim_vars, port, mock_mode, log_vars, graph_vars, constructed,
                   running, pending, ui>>

\* A loop that tests nothing: while True.
MonitorCheck_IgnoresStop(t) ==
    /\ thread[t] = "check"
    /\ thread' = [thread EXCEPT ![t] = "read"]
    /\ NoReaderCall
    /\ UNCHANGED <<detector_vars, phase, sim_vars, reader_vars, log_vars, graph_vars, constructed, running,
                   pending, ui>>

\* monitor_loop, line 1122: while self.running (after the sleep of the
\* previous round).
MonitorCheck(t) ==
    /\ thread[t] = "check"
    /\ thread' = [thread EXCEPT ![t] = IF running THEN "read" ELSE "done"]
    /\ NoReaderCall
    /\ UNCHANGED <<detector_vars, phase, sim_vars, reader_vars, log_vars, graph_vars, constructed, running,
                   pending, ui>>

\* A loop without its try/except: an exception of the read ends the thread.
MonitorRead_DiesOnError(t) ==
    /\ thread[t] = "read"
    /\ mock_mode => InFlight < InputCap
    /\ \E o \in ReadOutcomes :
          /\ read_sensor_data(o)
          /\ pending' = IF o.ret.kind = "reading" /\ ui = "up"
                          THEN Append(pending, o.ret.data) ELSE pending
          /\ returned' = IF o.ret.kind = "reading"
                           THEN Append(returned, AsReading(o.ret.data)) ELSE returned
          /\ thread' = [thread EXCEPT ![t] = IF o.ret.kind = "raised" THEN "done"
                                              ELSE "check"]
    /\ UNCHANGED <<detector_vars, phase, sim_vars, logged, graph_vars, constructed, running,
                   ui>>

\* monitor_loop, lines 1123-1129: one poll.  A reading is queued for the UI
\* thread with root.after; an exception of the read, or of root.after once
\* the main loop is gone, is caught and printed.
MonitorRead(t) ==
    /\ thread[t] = "read"
    /\ mock_mode => InFlight < InputCap
    /\ \E o \in ReadOutcomes :
          /\ read_sensor_data(o)
          /\ pending' = IF o.ret.kind = "reading" /\ ui = "up"
                          THEN Append(pending, o.ret.data) ELSE pending
          /\ returned' = IF o.ret.kind = "reading"
                           THEN Append(returned, AsReading(o.ret.data)) ELSE returned
    /\ thread' = [thread EXCEPT ![t] = "check"]
    /\ UNCHANGED <<detector_vars, phase, sim_vars, logged, graph_vars, constructed, running,
                   ui>>

\* A callback that stays queued after it has run.
RunCallback_Requeues ==
    /\ ui = "up"
    /\ pending # <<>>
    /\ Len(arrived) < InputCap
    /\ update_readings(Head(pending))
    /\ pending' = pending
    /\ NoReaderCall
    /\ UNCHANGED <<phase, sim_vars, reader_vars, returned, constructed, running, thread, ui>>

\* The UI thread runs the oldest queued update_readings(data).
RunCallback ==
    /\ ui = "up"
    /\ pending # <<>>
    /\ update_readings(Head(pending))
    /\ pending' = Tail(pending)
    /\ NoReaderCall
    /\ UNCHANGED <<phase, sim_vars, reader_vars, returned, constructed, running, thread, ui>>

\* run(), after mainloop returns: running = False, reader.close().
Shutdown ==
    /\ ui = "up"
    /\ ui' = "closed"
    /\ running' = FALSE
    /\ close
    /\ UNCHANGED <<detector_vars, phase, sim_vars, log_vars, graph_vars, constructed, thread, pending>>

Init == DetectorInit /\ SystemIdle /\ phase = "system"

Next ==
    \/ \E mock \in BOOLEAN, ok \in BOOLEAN : Construct(mock, ok)
    \/ \E item \in LiveRecords \cup PartialRecords : Deliver(item)
    \/ Unplug
    \/ \E p \in Ports, th \in Thresholds, ok \in BOOLEAN : save_settings(p, th, ok)
    \/ refresh_data
    \/ start_monitoring
    \/ stop_monitoring
    \/ \E t \in 1..MaxThreads, ok \in BOOLEAN : MonitorOpen(t, ok)
    \/ \E t \in 1..MaxThreads : MonitorCheck(t)
    \/ \E t \in 1..MaxThreads : MonitorRead(t)
    \/ RunCallback
    \/ Shutdown

Spec == Init /\ [][Next]_vars

-----------------------------------------------------------------------------
(* The monitor loop on a live reader: the port opens at construction, the  *)
(* device sends two well-formed records and a malformed one, and           *)
(* logger.log may fail.                                                     *)

\* "4.98,0.42,13.1,Normal", "2.5,0.3,10" and "5.0,abc,10".
MonitorRecords ==
    { Line(<<Num(498), Num(42), Num(1310), Txt("Normal")>>),
      Line(<<Num(250), Num(30), Num(1000)>>),
      Line(<<Num(500), Txt("abc"), Num(1000)>>) }

MonitorInit == DetectorInit /\ SystemIdle /\ phase = "monitor"

MonitorNext ==
    \/ Construct(FALSE, TRUE)
    \/ \E item \in MonitorRecords : Deliver(item)
    \/ Unplug
    \/ refresh_data
    \/ start_monitoring
    \/ stop_monitoring
    \/ \E t \in 1..MaxThreads : MonitorOpen(t, TRUE)
    \/ \E t \in 1..MaxThreads : MonitorCheck(t)
    \/ \E t \in 1..MaxThreads : MonitorRead(t)
    \/ RunCallback
    \/ Shutdown

SpecMonitor == MonitorInit /\ [][MonitorNext]_vars

\* The scheduler runs every started thread again and again: time.sleep(0.5)
\* returns, and a read returns within the transport's 1 s timeout.
MonitorFairness ==
    \A t \in 1..MaxThreads :
        /\ WF_vars(MonitorOpen(t, TRUE))
        /\ WF_vars(MonitorCheck(t))
        /\ WF_vars(MonitorRead(t))

\* Records read by refresh_data: voltages on both sides of the reader's
\* 2.7 V test, currents and fields on both sides of detector thresholds, and
\* a hint that is absent, "Normal", or a tamper label.
RecordVoltage == {269, 270, 498}
RecordCurrent == {30, 250}
RecordMagnetic == {1000, 7000}
RecordHints == {"Normal", "Magnetic Tamper"}
RecordGrid ==
    { Line(<<Num(v), Num(c), Num(m)>>) :
        v \in RecordVoltage, c \in RecordCurrent, m \in RecordMagnetic }
    \cup
    { Line(<<Num(v), Num(c), Num(m), Txt(h)>>) :
        v \in RecordVoltage, c \in RecordCurrent, m \in RecordMagnetic, h \in RecordHints }

RecordInit == DetectorInit /\ SystemIdle /\ phase = "record"

RecordNext ==
    \/ Construct(FALSE, TRUE)
    \/ \E item \in RecordGrid : Deliver(item)
    \/ refresh_data

SpecRecord == RecordInit /\ [][RecordNext]_vars

\* Starting and stopping the monitor loop while one kind of record arrives.
StopInit == DetectorInit /\ SystemIdle /\ phase = "stop"

StopNext ==
    \/ Construct(FALSE, TRUE)
    \/ Deliver(Line(<<Num(498), Num(42), Num(1310), Txt("Normal")>>))
    \/ Unplug
    \/ start_monitoring
    \/ stop_monitoring
    \/ \E t \in 1..MaxThreads : MonitorOpen(t, TRUE)
    \/ \E t \in 1..MaxThreads : MonitorCheck(t)
    \/ \E t \in 1..MaxThreads : MonitorRead(t)
    \/ RunCallback
    \/ Shutdown

SpecStop == StopInit /\ [][StopNext]_vars /\ MonitorFairness

-----------------------------------------------------------------------------
(* The reader in mock mode: reads by refresh_data and by the monitor loop. *)

MockInit == DetectorInit /\ SystemIdle /\ phase = "mock"

MockNext ==
    \/ Construct(TRUE, TRUE)
    \/ refresh_data
    \/ \E t \in 1..MaxThreads : MonitorOpen(t, TRUE)
    \/ \E t \in 1..MaxThreads : MonitorCheck(t)
    \/ \E t \in 1..MaxThreads : MonitorRead(t)
    \/ RunCallback

SpecMock == MockInit /\ [][MockNext]_vars

-----------------------------------------------------------------------------
(* A long session: one kind of record, read by refresh_data, until the     *)
(* graph arrays are full and beyond.                                       *)

GraphInit == DetectorInit /\ SystemIdle /\ phase = "graph"

GraphNext ==
    \/ Construct(FALSE, TRUE)
    \/ Deliver(Line(<<Num(498), Num(42), Num(1310), Txt("Normal")>>))
    \/ refresh_data

SpecGraph == GraphInit /\ [][GraphNext]_vars

-----------------------------------------------------------------------------
(* simulator.run_server and the clients of its listening socket *)

\* --tamper: its default 0.25.
SIM_TAMPER_DEFAULT == 250
TamperProbabilities == {SIM_TAMPER_DEFAULT}

Clients == 1..MaxClients

server_frame == <<detector_vars, phase, reader_vars, call_vars, log_vars, ui_vars, graph_vars>>

\* run_server up to its first accept(): bind, listen.
ServerStart(p) ==
    /\ phase = "serve"
    /\ server.state = "off"
    /\ server' = [server EXCEPT !.state = "accept", !.tamper_probability = p]
    /\ UNCHANGED server_frame

\* A client connects: the kernel completes the connection and queues it for
\* accept().  A socket that no longer listens refuses.
Connect(c) ==
    /\ server.state \in {"accept", "stream"}
    /\ server.peer[c] = "idle"
    /\ server' = [server EXCEPT !.peer[c] = "queued", !.backlog = Append(@, c)]
    /\ UNCHANGED server_frame

\* A client closes its end, queued or connected.
Leave(c) ==
    /\ server.peer[c] \in {"queued", "served"}
    /\ server' = [server EXCEPT !.peer[c] = "gone"]
    /\ UNCHANGED server_frame

\* Line 57: accept() returns the oldest queued connection, whether or not its
\* client is still there.
Accept ==
    /\ server.state = "accept"
    /\ server.backlog # <<>>
    /\ LET c == Head(server.backlog)
       IN  server' = [server EXCEPT
                        !.state = "stream", !.conn = c, !.backlog = Tail(@),
                        !.reset = FALSE, !.sent = 0, !.last_send = "none",
                        !.peer[c] = IF @ = "queued" THEN "served" ELSE @]
    /\ UNCHANGED server_frame

\* The send loop without the try/except around it: a failed send leaves
\* run_server.
Send_NoCatch(u, dv, dc, dm, case, s, ok) ==
    /\ server.state = "stream"
    /\ (server.reset => ~ok)
    /\ LET g == GenerateReading(server.tamper_probability, u, dv, dc, dm, case, s)
           d == [tampered |-> u < server.tamper_probability, case |-> case]
           c == server.conn
       IN  IF ok
             THEN server' = [server EXCEPT
                               !.line = g, !.draw = d, !.last_send = "ok",
                               !.sent = Min(@ + 1, MaxSent),
                               !.reset = (server.peer[c] = "gone")]
             ELSE server' = [server EXCEPT
                               !.line = g, !.draw = d, !.last_send = "failed",
                               !.state = "exited", !.conn = 0, !.reset = FALSE,
                               !.peer[c] = "dropped"]
    /\ UNCHANGED server_frame

\* Lines 62-68: one round of the send loop.  generate_reading draws a record,
\* sendall sends it (ok) or raises; the exception leaves the with block,
\* which closes the connection, and the except clause, after which the outer
\* loop is at accept() again.  A send to a client that has gone can still
\* succeed once, into the socket buffer; the reset that answers it makes
\* every later send fail.  A send to a present client fails when the network
\* drops the connection.
Send(u, dv, dc, dm, case, s, ok) ==
    /\ server.state = "stream"
    /\ (server.reset => ~ok)
    /\ LET g == GenerateReading(server.tamper_probability, u, dv, dc, dm, case, s)
           d == [tampered |-> u < server.tamper_probability, case |-> case]
           c == server.conn
       IN  IF ok
             THEN server' = [server EXCEPT
                               !.line = g, !.draw = d, !.last_send = "ok",
                               !.sent = Min(@ + 1, MaxSent),
                               !.reset = (server.peer[c] = "gone")]
             ELSE server' = [server EXCEPT
                               !.line = g, !.draw = d, !.last_send = "failed",
                               !.state = "accept", !.conn = 0, !.reset = FALSE,
                               !.peer[c] = "dropped"]
    /\ UNCHANGED server_frame

\* The draws of the records the server sends: the baseline, and the
\* scenarios that change the voltage, the current and the magnetic field.
ServeDC == {300}
ServeCases == {"voltage", "bypass", "magnetic"}

\* One round of the send loop with any draws and either outcome.
SendRound ==
    \E u \in DrawU, dv \in WarmDV, dc \in ServeDC, dm \in WarmDM, case \in ServeCases :
       \E s \in ScenarioDraw(case), ok \in BOOLEAN :
          Send(u, dv, dc, dm, case, s, ok)

ServerInit == DetectorInit /\ SystemIdle /\ phase = "serve"

ServerNext ==
    \/ \E p \in TamperProbabilities : ServerStart(p)
    \/ \E c \in Clients : Connect(c)
    \/ \E c \in Clients : Leave(c)
    \/ Accept
    \/ SendRound

\* The server's one thread keeps running: accept() returns when a connection
\* is queued, and sendall and time.sleep return or raise.
ServerFairness == WF_vars(Accept) /\ WF_vars(SendRound)

SpecServer == ServerInit /\ [][ServerNext]_vars /\ ServerFairness

-----------------------------------------------------------------------------
(* Properties of the detector *)

Last == arrived[Len(arrived)]

\* One channel of the readings classified so far, in arrival order.
Channel(ch) == [i \in 1..Len(arrived) |-> arrived[i][ch]]

\* The power window as it stood when the last reading arrived.
PriorPowers == LastN(SubSeq(Channel("power"), 1, Len(arrived) - 1), 50)

\* Rule i of the chain, with the default thresholds, for reading r over the
\* power samples `prior`.
RuleHolds(i, r, prior) ==
    CASE i = 1 -> r.magnetic_field > 6000
      [] i = 2 -> r.current < -10
      [] i = 3 -> r.voltage >= 450 /\ r.current < 5
      [] i = 4 -> r.current > 200
      [] i = 5 -> r.voltage < 270
      [] i = 6 -> r.voltage < 470 \/ r.voltage > 520
      [] i = 7 -> /\ Len(prior) > 5
                  /\ LET w == LastN(prior, 10)
                         n == Len(w)
                         total == SumSeq(w)
                     IN  /\ 10 * total > 1000 * n
                         /\ 2 * Abs(r.power * n - total) > total
                         /\ 10 * r.power * n < 3 * total
      [] i = 8 -> TRUE

RuleCategory ==
    <<"Magnetic Tamper", "Reverse Flow", "Bypass Detected", "Overload Detected",
      "Voltage Tamper", "Voltage Anomaly", "Power Mismatch", "Normal">>

FirstRule(r, prior) ==
    CHOOSE i \in 1..8 : RuleHolds(i, r, prior) /\ \A j \in 1..(i - 1) : ~RuleHolds(j, r, prior)

\* C1: every classified reading gets exactly one category of the closed set,
\* the category of the first rule it satisfies in the order Magnetic Tamper,
\* Reverse Flow, Bypass Detected, Overload Detected, Voltage Tamper, Voltage
\* Anomaly, Power Mismatch, Normal.
C1_FirstRuleWins ==
    arrived # <<>> =>
        /\ event.event_type \in { RuleCategory[i] : i \in 1..8 }
        /\ event.event_type = RuleCategory[FirstRule(Last, PriorPowers)]

\* C1 witness: a reading that is overloaded and critically low in voltage at
\* once, classified by the earlier of its two rules.
C1_Witness ==
    /\ arrived # <<>>
    /\ Last.current > 200 /\ Last.voltage < 270 /\ Last.magnetic_field <= 6000
    /\ event.event_type = "Overload Detected"

\* C2 (as claimed): a stream of generate_reading(0) readings is classified
\* "Normal" throughout.
C2_BaselineAlwaysNormal ==
    (arrived # <<>> /\ \A i \in 1..Len(arrived) : arrived[i].src = "gen0")
        => event.event_type = "Normal"

\* C3 (as claimed): a generate_reading(1) reading is never classified
\* "Normal", whatever the histories hold.
C3_TamperNeverNormal ==
    (arrived # <<>> /\ Last.src = "gen1") => event.event_type # "Normal"

\* C4: the three histories have one length, at most 50, and hold the most
\* recent min(n, 50) readings in arrival order.
C4_RollingWindow ==
    /\ Len(voltage_history) <= 50
    /\ Len(current_history) = Len(voltage_history)
    /\ Len(power_history) = Len(voltage_history)
    /\ voltage_history = LastN(Channel("voltage"), 50)
    /\ current_history = LastN(Channel("current"), 50)
    /\ power_history = LastN(Channel("power"), 50)

\* C4 witness: the 51st reading has arrived, and the entry it displaced
\* differs from the one that followed it.
C4_Witness ==
    /\ Len(arrived) = 51
    /\ arrived[1] # arrived[2]
    /\ Len(voltage_history) = 50

\* C5: the trend average of rule 7 is taken over the power samples that
\* preceded the reading being classified, and rule 7 is reached on their
\* count alone; the reading's own values are the newest history entries once
\* the call has returned.
C5_ClassifiedBeforeAppend ==
    arrived # <<>> =>
        /\ trend.evaluated <=>
              /\ \A i \in 1..6 : ~RuleHolds(i, Last, PriorPowers)
              /\ Len(PriorPowers) > 5
        /\ trend.evaluated =>
              /\ trend.total = SumSeq(LastN(PriorPowers, 10))
              /\ trend.count = Min(Len(PriorPowers), 10)
        /\ voltage_history[Len(voltage_history)] = Last.voltage
        /\ current_history[Len(current_history)] = Last.current
        /\ power_history[Len(power_history)] = Last.power

\* C5 witness: a power drop flagged against the six samples before it.
C5_Witness ==
    /\ Len(arrived) = 7
    /\ trend.evaluated /\ trend.count = 6
    /\ event.event_type = "Power Mismatch"
    /\ Last.power * 6 # trend.total

\* C16: a reading whose magnetic field is above magnetic_tamper_threshold is
\* classified "Magnetic Tamper", critical, whatever its other values and
\* whatever the histories hold.
C16_MagneticFirst ==
    (arrived # <<>> /\ Last.magnetic_field > magnetic_tamper_threshold) =>
        event = [event_type |-> "Magnetic Tamper", severity |-> "critical"]

\* C16 witness: a reading above the magnetic threshold that also shows
\* reverse current and a critically low voltage, classified after six
\* earlier readings.
C16_Witness ==
    /\ Len(arrived) > 6
    /\ Last.magnetic_field > 6000 /\ Last.current < -10 /\ Last.voltage < 270
    /\ event.event_type = "Magnetic Tamper"

\* C17: a reading with current above 2.0, magnetic field at most 60, and a
\* voltage below 2.7 or outside [4.7, 5.2] is classified "Overload Detected".
C17_OverloadBeforeVoltage ==
    (/\ arrived # <<>>
     /\ Last.current > 200 /\ Last.magnetic_field <= 6000
     /\ (Last.voltage < 270 \/ Last.voltage < 470 \/ Last.voltage > 520))
        => event.event_type = "Overload Detected"

\* C17 witness: an overloaded reading above the normal voltage band.
C17_Witness ==
    /\ arrived # <<>>
    /\ Last.current > 200 /\ Last.voltage > 520 /\ Last.magnetic_field <= 6000
    /\ event.event_type = "Overload Detected"

\* Rule i of the chain for reading r with every threshold, the bypass
\* voltage floor included, taken from the detector's configuration.
ConfiguredRuleHolds(i, r) ==
    CASE i = 1 -> r.magnetic_field > magnetic_tamper_threshold
      [] i = 2 -> r.current < config.reverse_threshold
      [] i = 3 -> r.voltage >= config.bypass_voltage_floor /\ r.current < config.current_min
      [] i = 4 -> r.current > config.overload_threshold
      [] i = 5 -> r.voltage < config.voltage_tamper_threshold
      [] i = 6 -> r.voltage < config.voltage_normal_min \/ r.voltage > config.voltage_normal_max
      [] i = 7 -> FALSE
      [] i = 8 -> TRUE

FirstConfiguredRule(r) ==
    CHOOSE i \in 1..8 : ConfiguredRuleHolds(i, r) /\ \A j \in 1..(i - 1) : ~ConfiguredRuleHolds(j, r)

\* C20 (as claimed): each of the eight thresholds is a value of the
\* detector's configuration: a reading is classified by the first rule it
\* satisfies under the thresholds as configured when it is classified.
C20_EveryThresholdConfigurable ==
    [][ arrived' # arrived =>
           (event.event_type = RuleCategory[FirstConfiguredRule(Last)])' ]_vars

-----------------------------------------------------------------------------
(* Properties of the reader and the monitor loop *)

IsRead(c) == c.op = "read_sensor_data"

\* A received line with fewer than 3 fields, or with a field among its first
\* three that float() rejects.
Malformed(line) ==
    /\ line.any /\ line.utf8
    /\ \/ Len(line.fields) < 3
       \/ \E i \in 1..Min(3, Len(line.fields)) : ~line.fields[i].num

\* C6 (as claimed): read_sensor_data returns a reading or None in every
\* reader state; it never raises to its caller.
C6_ReadNeverRaises ==
    IsRead(call) => ret.kind \in {"reading", "none"}

\* C7: a read that consumes a malformed line returns None, queues and
\* classifies nothing, leaves the three histories as they were, and ends no
\* monitor thread: the loop is back at its while test.
C7_MalformedDiscarded ==
    [][ (IsRead(call') /\ Malformed(call'.line)) =>
           /\ ret'.kind = "none"
           /\ UNCHANGED <<voltage_history, current_history, power_history>>
           /\ pending' = pending
           /\ \A t \in 1..MaxThreads :
                 /\ thread'[t] = "done" => thread[t] = "done"
                 /\ thread[t] = "read" => thread'[t] \in {"read", "check"} ]_vars

\* C7 witness: the monitor loop has just read "5.0,abc,10", got None, and is
\* at its while test with monitoring still on.
C7_Witness ==
    /\ IsRead(call) /\ Malformed(call.line)
    /\ Len(call.line.fields) = 3 /\ call.line.fields[2].text = "abc"
    /\ ret.kind = "none"
    /\ running /\ \E t \in 1..MaxThreads : thread[t] = "check"

\* C8 (as claimed): a read on a healthy open transport that holds no complete
\* record returns None without waiting.
C8_NoRecordNoWait ==
    (IsRead(call) /\ call.healthy /\ ~call.had_record) =>
        (ret.kind = "none" /\ ~call.waited)

\* C9: open_port returns True or False and never raises; on an open transport
\* it returns True without opening anything and leaves transport and buffer
\* alone; otherwise it tries to open the port, which is what lets a later
\* call retry; True leaves an open transport, False leaves ser None.
C9_OpenPortIdempotent ==
    [][ call'.op = "open_port" =>
           /\ ret'.kind \in {"True", "False"}
           /\ (ser.present /\ ser.is_open) =>
                 /\ ret'.kind = "True"
                 /\ ~call'.attempted
                 /\ UNCHANGED <<ser, rx, link>>
           /\ ~(ser.present /\ ser.is_open) => call'.attempted
           /\ ret'.kind = "True" => (ser'.present /\ ser'.is_open)
           /\ ret'.kind = "False" => ser' = NoSer ]_vars

\* C9 witness: open_port has just failed on a reader whose transport close()
\* had closed, and the reader is disconnected.
C9_Witness ==
    /\ call.op = "open_port" /\ call.attempted
    /\ ret.kind = "False"
    /\ ser = NoSer
    /\ ui = "closed"

\* C10: a constructor asked for live mode leaves mock_mode False, no later
\* step turns mock_mode from False to True, and a read on a reader that is
\* not in mock mode and has no transport returns None.
C10_NeverFallsBackToMock ==
    [][ /\ (call'.op = "__init__" /\ call'.attempted) => ~mock_mode'
        /\ (constructed /\ ~mock_mode) => ~mock_mode'
        /\ (IsRead(call') /\ ~mock_mode /\ ~ser.present) => ret'.kind = "none" ]_vars

\* C10 witness: the connection failed, the reader stayed in live mode, and a
\* read has just returned None.
C10_Witness ==
    /\ constructed /\ ~mock_mode /\ ser = NoSer
    /\ IsRead(call) /\ ret.kind = "none"

-----------------------------------------------------------------------------
(* Properties of monitoring: order, start and stop, shutdown *)

Active == {"open", "check", "read"}

\* C11 (as claimed): the readings classified so far are the first readings
\* the reader returned, in the order it returned them.
C11_ClassifiedInReadOrder ==
    /\ Len(arrived) <= Len(returned)
    /\ arrived = SubSeq(returned, 1, Len(arrived))

\* C12: start_monitoring while running changes nothing and starts no thread;
\* stop_monitoring while stopped leaves running False and starts no thread.
C12_StartStopIdempotent ==
    [][ /\ (call'.op = "start_monitoring" /\ running) =>
              UNCHANGED <<detector_vars, reader_vars, log_vars, ui_vars>>
        /\ (call'.op = "stop_monitoring" /\ ~running) =>
              /\ ~running'
              /\ UNCHANGED <<detector_vars, reader_vars, log_vars, constructed,
                             thread, pending, ui>> ]_vars

\* C12 witness: start_monitoring has just been called on a running monitor,
\* and the thread of the automatic start is still the only one.
C12_Witness ==
    /\ call.op = "start_monitoring" /\ ~call.attempted
    /\ running
    /\ thread[1] \in Active
    /\ \A t \in 2..MaxThreads : thread[t] = "unborn"

\* C13: once running is False, every monitor thread that is still in its
\* loop exits, unless monitoring is started again first.
C13_StopEndsLoop ==
    \A t \in 1..MaxThreads :
        []((~running /\ thread[t] \in Active) => <>(thread[t] = "done" \/ running))

\* C13 witness: stop_monitoring has cleared the flag and the thread has left
\* its loop while the window is still up.
C13_Witness ==
    /\ ui = "up" /\ ~running
    /\ thread[1] = "done"
    /\ \A t \in 1..MaxThreads : thread[t] \notin Active

\* The hint of a received record: its fourth field, or none.
LineHint(line) == IF Len(line.fields) >= 4 THEN line.fields[4].text ELSE "absent"

\* C18: a reading that read_sensor_data returns from a live record with a
\* voltage below 2.7 never carries the hint "Normal"; when the record's hint
\* was "Normal" or absent the reading carries "Voltage Tamper".
C18_LowVoltageRelabelled ==
    (IsRead(call) /\ ret.kind = "reading" /\ ~mock_mode /\ ret.data.voltage < 270) =>
        /\ ret.data.tamper_type # "Normal"
        /\ LineHint(call.line) \in {"Normal", "absent"} =>
              ret.data.tamper_type = "Voltage Tamper"

\* C18 witness: "2.69,0.3,10.0,Normal" has been read and relabelled.
C18_Witness ==
    /\ IsRead(call) /\ ret.kind = "reading"
    /\ LineHint(call.line) = "Normal"
    /\ ret.data.voltage = 269
    /\ ret.data.tamper_type = "Voltage Tamper"

\* C19: the category, the severity and the histories after a call are those
\* the rule chain gives for the numbers of the readings classified so far;
\* the hint of a reading is no input, so two runs that agree on the numbers
\* agree on every classification and on the histories.
C19_HintIgnored ==
    arrived # <<>> =>
        LET res == RuleChain(PriorPowers, magnetic_tamper_threshold, Last.voltage,
                             Last.current, Last.magnetic_field, Last.power)
        IN  /\ event = [event_type |-> res.event_type, severity |-> res.severity]
            /\ voltage_history = LastN(Channel("voltage"), 50)
            /\ current_history = LastN(Channel("current"), 50)
            /\ power_history = LastN(Channel("power"), 50)

\* C19 witness: a record hinted "Magnetic Tamper" whose numbers are normal
\* has been read and classified "Normal" after an earlier reading.
C19_Witness ==
    /\ IsRead(call) /\ ret.kind = "reading"
    /\ ret.data.tamper_type = "Magnetic Tamper"
    /\ Len(arrived) = 2 /\ Last = AsReading(ret.data)
    /\ event.event_type = "Normal"

\* C14 (as claimed): read_sensor_data is never called on a reader whose
\* transport close() has closed.
C14_NoReadAfterClose ==
    IsRead(call) => (ser.present => ser.is_open)

\* C15: a monitor thread ends only at its while test with running False,
\* whatever the read before it did; a queued reading is classified whether
\* or not logger.log fails, and a failing logger.log moves no thread.
C15_LoopSurvivesFailures ==
    [][ /\ \A t \in 1..MaxThreads :
              thread'[t] = "done" =>
                  (thread[t] = "done" \/ (thread[t] = "check" /\ ~running))
        /\ (pending # <<>> /\ pending' = Tail(pending)) =>
              arrived' = Append(arrived, AsReading(Head(pending)))
        /\ (arrived' # arrived /\ logged' = logged) =>
              \A t \in 1..MaxThreads :
                  thread[t] \in Active => thread'[t] \in Active ]_vars

\* C15 witness: logger.log failed for the first reading; the loop went on,
\* and the next reading was classified and logged.
C15_Witness ==
    /\ Len(arrived) = 2 /\ arrived[1] # arrived[2]
    /\ Len(logged) = 1 /\ logged[1].reading = arrived[2]
    /\ running /\ \E t \in 1..MaxThreads : thread[t] \in Active

-----------------------------------------------------------------------------
(* Properties of the returned readings: power, and the mock reader *)

\* C21 (as claimed): every reading read_sensor_data returns, in live mode and
\* in mock mode, has a power field equal to its own voltage field times its
\* own current field, rounded to 3 decimal places.
C21_PowerIsProduct ==
    (IsRead(call) /\ ret.kind = "reading") =>
        ret.data.power = PowerOf(ret.data.voltage, ret.data.current)

\* The four values generate_reading returns, taken from a reading.
Hinted(data) ==
    [voltage |-> data.voltage, current |-> data.current,
     magnetic_field |-> data.magnetic_field, tamper_type |-> data.tamper_type]

\* C22: in mock mode a read returns a reading, never None, and leaves the
\* transport and its buffer alone; the (voltage, current, magnetic_field,
\* hint) values it can return are exactly those generate_reading returns
\* for the same draws.
C22_MockIsGenerator ==
    [][ (IsRead(call') /\ mock_mode) =>
           /\ ret'.kind = "reading"
           /\ UNCHANGED <<ser, link, rx>>
           /\ ~call'.healthy /\ call'.line = NoLine
           /\ { Hinted(o.ret.data) : o \in ReadOutcomes } =
                 GeneratedReadings(SIM_TAMPER_DEFAULT, MockDV, MockDC, MockDM) ]_vars

\* C22 witness: the monitor loop has read a mock reading of the reverse
\* scenario, with its negative current and its hint, and queued it.
C22_Witness ==
    /\ IsRead(call) /\ mock_mode /\ ret.kind = "reading"
    /\ ret.data.tamper_type = "Reverse Flow Tamper" /\ ret.data.current = -100
    /\ ser = NoSer
    /\ pending = <<ret.data>>

\* The keys the statistics are claimed to have: minimum, maximum and mean of
\* each of the three channels.
ClaimedStatKeys ==
    { "min_voltage", "max_voltage", "avg_voltage",
      "min_current", "max_current", "avg_current",
      "min_power", "max_power", "avg_power" }

\* C23 (as claimed): get_statistics returns None exactly when no reading has
\* been classified; otherwise it returns the minimum, the maximum and the
\* mean of the current history contents for voltage, current and power.
C23_StatisticsOfWindow ==
    LET st == get_statistics
    IN  /\ st.none <=> arrived = <<>>
        /\ ~st.none =>
              /\ ClaimedStatKeys \subseteq DOMAIN st
              /\ st.min_voltage = MinOf(LastN(Channel("voltage"), 50))
              /\ st.max_voltage = MaxOf(LastN(Channel("voltage"), 50))
              /\ st.avg_voltage = Mean(LastN(Channel("voltage"), 50))
              /\ st.min_current = MinOf(LastN(Channel("current"), 50))
              /\ st.max_current = MaxOf(LastN(Channel("current"), 50))
              /\ st.avg_current = Mean(LastN(Channel("current"), 50))
              /\ st.min_power = MinOf(LastN(Channel("power"), 50))
              /\ st.max_power = MaxOf(LastN(Channel("power"), 50))
              /\ st.avg_power = Mean(LastN(Channel("power"), 50))

-----------------------------------------------------------------------------
(* Properties of the generator and the streaming server *)

C24_ServerSurvivesFailedSend ==
    /\ [](/\ server.state # "exited"
          /\ Cardinality({ c \in Clients : server.peer[c] = "served" }) <= 1)
    /\ [][ (server.state = "stream" /\ server'.last_send = "failed") =>
              (server'.state = "accept" /\ server'.conn = 0) ]_vars
    /\ \A c \in Clients :
          [](server.peer[c] = "queued" =>
                <>(\/ server.conn = c /\ server.sent >= 1
                   \/ server.peer[c] \in {"gone", "dropped"}
                   \/ \E d \in Clients \ {c} :
                         server.conn = d /\ server.peer[d] = "served"))

\* C24 witness: the connection of client 1 ended on a failed send, and
\* client 2 has been accepted after it and sent a record.
C24_Witness ==
    /\ server.peer[1] = "dropped"
    /\ server.state = "stream" /\ server.conn = 2 /\ server.peer[2] = "served"
    /\ server.sent >= 1 /\ server.last_send = "ok"

-----------------------------------------------------------------------------
(* Properties of the session: one classification and one row per reading,   *)
(* the statistics panel, the threads, the port                              *)

\* C25: a step classifies at most one reading, and that reading is either
\* the oldest queued one, which leaves the queue, or the one refresh_data
\* has just read; a reading the monitor loop reads is queued once; a step
\* writes at most one row, only when it classifies, and the row carries the
\* reading classified and its category.
C25_ClassifiedAndLoggedOnce ==
    [][ /\ arrived' # arrived =>
              /\ Len(arrived') = Len(arrived) + 1
              /\ SubSeq(arrived', 1, Len(arrived)) = arrived
              /\ \/ /\ pending # <<>> /\ pending' = Tail(pending)
                    /\ arrived'[Len(arrived')] = AsReading(Head(pending))
                    /\ returned' = returned
                 \/ /\ IsRead(call') /\ ret'.kind = "reading" /\ pending' = pending
                    /\ arrived'[Len(arrived')] = AsReading(ret'.data)
                    /\ returned' = Append(returned, AsReading(ret'.data))
        /\ (arrived' = arrived /\ pending' # pending) =>
              /\ IsRead(call') /\ ret'.kind = "reading"
              /\ pending' = Append(pending, ret'.data)
              /\ returned' = Append(returned, AsReading(ret'.data))
        /\ logged' # logged =>
              /\ arrived' # arrived
              /\ logged' = Append(logged, [reading |-> arrived'[Len(arrived')],
                                           event_type |-> event'.event_type])
        /\ Len(arrived') <= Len(returned')
        /\ Len(logged') <= Len(arrived') ]_vars

\* C25 witness: the monitor loop has read two different readings; both have
\* been classified once and logged once, in order, and the queue is empty.
C25_Witness ==
    /\ Len(returned) = 2 /\ returned[1] # returned[2]
    /\ arrived = returned
    /\ pending = <<>>
    /\ Len(logged) = 2
    /\ logged[1].reading = arrived[1] /\ logged[2].reading = arrived[2]
    /\ ~IsRead(call)

\* C28 (as claimed): update_statistics has been invoked once for every 5
\* readings processed, at every point of a session.
C28_StatisticsEveryFifth ==
    stats_updates = Len(arrived) \div 5

\* C29 (as claimed): at most one monitor_loop thread is past its while test
\* and polling the reader at any time.
C29_OnePollingThread ==
    Cardinality({ t \in 1..MaxThreads : thread[t] = "read" }) <= 1

\* C30 (as claimed): when save_settings gets True from open_port, and so
\* reports "Connected <port>", the open transport is one to the port just
\* saved.  The open_port call of save_settings is the one that moves no
\* monitor thread.
C30_ConnectedToSavedPort ==
    [][ (call'.op = "open_port" /\ ret'.kind = "True" /\ thread' = thread) =>
           (ser'.present /\ ser'.is_open /\ ser'.port = port') ]_vars

=============================================================================
